---- MODULE Spec2Model ----
(***************************************************************************)
(* Model of bin/pi_garage_alert.py: the poll loop of PiGarageAlert.main,   *)
(* the alert dispatch of send_alerts and the channel senders it calls.     *)
(* Time is counted in clock units, Res units to the second, so that        *)
(* time.time() differences need not be whole seconds and round() is not    *)
(* the identity.                                                           *)
(***************************************************************************)
EXTENDS Integers, Sequences, FiniteSets, TLC

\* Clock units per second.
Res == 2
\* The clock horizon, in clock units: no step takes the clock past it.
MaxNow == 10
\* The longest one blocking network call of a channel sender takes, in units.
MaxSendDelay == 1

VARIABLES
    doors,                      \* cfg.GARAGE_DOORS
    gpio,                       \* the level of each sensor pin, GPIO.input(pin)
    now,                        \* time.time(), in clock units
    pc,                         \* where main is
    reason,                     \* why main left the try block
    idx,                        \* the position of `for door in cfg.GARAGE_DOORS`
    door_states,                \* main's door_states
    time_of_last_state_change,  \* main's time_of_last_state_change
    alert_states,               \* main's alert_states
    status_report_countdown,    \* main's status_report_countdown
    jabber_connected,           \* Jabber.connected
    mqtt_connected,             \* Mqtt.connected
    mqtt_started,               \* Mqtt.client has its network loop running
    sensed_at,                  \* when each door's sensor was last read
    fired,                      \* per door and alert, the events sent for it
                                \* since the door's last observed change
    out,                        \* what the last pass over a door produced
    senders_bound,              \* main's alert_senders has been assigned
    gpio_clean,                 \* GPIO.cleanup() has run
    jabber_terminated,          \* Jabber.terminate() has disconnected
    fault,                      \* the call an exception came out of
    local,                      \* main's state, time_in_state between the
                                \* two assignments of an observed change
    stored_at,                  \* when each door_states entry was assigned
    reply,                      \* the reply handle_message is sending
    text,                       \* a message handed to an SMS or Twitter call
    authorized_ids              \* cfg.JABBER_AUTHORIZED_IDS, when cfg has it

vars == <<doors, gpio, now, pc, reason, idx, door_states,
          time_of_last_state_change, alert_states, status_report_countdown,
          jabber_connected, mqtt_connected, mqtt_started, sensed_at, fired,
          out, senders_bound, gpio_clean, jabber_terminated, fault, local,
          stored_at, reply, text, authorized_ids>>

----------------------------------------------------------------------------
\* Recipient strings, as sequences of characters (send_alerts slices them).

email_a == <<"e","m","a","i","l",":","a">>
sms_b == <<"s","m","s",":","b">>
jabber_c == <<"j","a","b","b","e","r",":","c">>
twitter_dm_d == <<"t","w","i","t","t","e","r","_","d","m",":","d">>
tweet == <<"t","w","e","e","t">>
mqtt_t == <<"m","q","t","t",":","t">>
bogus_x == <<"b","o","g","u","s",":","x">>
tweets == <<"t","w","e","e","t","s">>

\* Alert lists of cfg.GARAGE_DOORS entries: 'state', 'time' (seconds),
\* 'recipients'.
Alert(s, t, r) == [state |-> s, time |-> t, recipients |-> r]

AlertsAscending ==
    << Alert("open", 0, <<email_a>>),
       Alert("open", 1, <<sms_b, bogus_x, jabber_c>>) >>

AlertsMixed ==
    << Alert("closed", 1, <<tweets, tweet>>),
       Alert("open", 0, <<twitter_dm_d>>) >>

AlertsMqtt ==
    << Alert("open", 0, <<email_a, mqtt_t, bogus_x>>),
       Alert("open", 1, <<mqtt_t, sms_b>>) >>

AlertsBothWays ==
    << Alert("closed", 0, <<tweet>>),
       Alert("open", 0, <<email_a>>) >>

AlertsDescending ==
    << Alert("open", 1, <<email_a>>),
       Alert("open", 0, <<sms_b>>) >>

AlertsNone == << >>

Door(n, p, a) == [name |-> n, pin |-> p, alerts |-> a]

Configs ==
    { << Door("A", 1, AlertsAscending) >>,
      << Door("A", 1, AlertsMixed) >>,
      << Door("A", 1, AlertsBothWays) >>,
      << Door("A", 1, AlertsDescending) >>,
      << Door("A", 1, AlertsNone) >>,
      << Door("A", 1, AlertsMqtt), Door("B", 2, AlertsAscending) >> }

Names(ds) == { ds[i].name : i \in 1..Len(ds) }
Pins(ds) == { ds[i].pin : i \in 1..Len(ds) }

----------------------------------------------------------------------------
\* The channel senders.  Each gives the set of ways one call can end:
\* outcome "sent" (handed to the service), "logged" (the sender caught the
\* failure and logged it), "lost" (the failure went unnoticed), "raised" (an
\* exception left the sender); elapsed is the time the call blocked.

Call(o, d, c, s) ==
    [outcome |-> o, elapsed |-> d, connected |-> c, started |-> s]

\* A blocking network call: it returns after 0..MaxSendDelay units.
Blocking == 0..MaxSendDelay

\* Email.send_email: the SMTP session runs inside try/except.
send_email(ch) ==
    { Call(o, d, ch.connected, ch.started) :
        o \in {"sent", "logged"}, d \in Blocking }

\* Twitter.direct_msg and Twitter.update_status: unconfigured keys are logged,
\* a TweepError of the API call is caught and logged.
twitter_send(ch) ==
    { Call(o, d, ch.connected, ch.started) :
        o \in {"sent", "logged"}, d \in Blocking }

\* Twilio.send_sms: an unconfigured account is logged, every exception of the
\* API call is caught and logged.
send_sms(ch) ==
    { Call(o, d, ch.connected, ch.started) :
        o \in {"sent", "logged"}, d \in Blocking }

\* Jabber.send_msg: logs and returns when not connected, else queues the
\* message for the XMPP threads.
send_msg(ch) ==
    IF ~ch.jabber
    THEN { Call("logged", 0, ch.connected, ch.started) }
    ELSE { Call("sent", 0, ch.connected, ch.started) }

\* Mqtt.connect: client.connect(host) raises when the broker cannot be
\* reached, else the network loop is started.
mqtt_connect ==
    { [raised |-> TRUE, started |-> FALSE],
      [raised |-> FALSE, started |-> TRUE] }

\* Mqtt.publish: when not connected, connect() and time.sleep(1) come first;
\* nothing catches what connect() raises.  mqtt_on_connect may run on the
\* client's thread during the sleep.  The result of client.publish is dropped.
publish(ch) ==
    IF ch.connected = FALSE
    THEN UNION { IF c.raised
                 THEN { Call("raised", d, FALSE, ch.started) : d \in Blocking }
                 ELSE { Call(o, d + Res, k, TRUE) :
                          o \in {"sent", "lost"}, d \in Blocking,
                          k \in BOOLEAN }
                 : c \in mqtt_connect }
    ELSE { Call(o, 0, TRUE, ch.started) : o \in {"sent", "lost"} }

\* recipient[:n] and recipient[n:]
Prefix(r, n) == SubSeq(r, 1, IF Len(r) < n THEN Len(r) ELSE n)
Suffix(r, n) == SubSeq(r, n + 1, Len(r))

\* The branch of send_alerts' if/elif chain a recipient takes: the channel
\* and the address handed to it.
Route(recipient) ==
    IF Prefix(recipient, 6) = <<"e","m","a","i","l",":">>
    THEN [channel |-> "Email", to |-> Suffix(recipient, 6)]
    ELSE IF Prefix(recipient, 11) = <<"t","w","i","t","t","e","r","_","d","m",":">>
    THEN [channel |-> "TwitterDM", to |-> Suffix(recipient, 11)]
    ELSE IF recipient = <<"t","w","e","e","t">>
    THEN [channel |-> "Tweet", to |-> << >>]
    ELSE IF Prefix(recipient, 4) = <<"s","m","s",":">>
    THEN [channel |-> "Twilio", to |-> Suffix(recipient, 4)]
    ELSE IF Prefix(recipient, 7) = <<"j","a","b","b","e","r",":">>
    THEN [channel |-> "Jabber", to |-> Suffix(recipient, 7)]
    ELSE IF Prefix(recipient, 5) = <<"m","q","t","t",":">>
    THEN [channel |-> "Mqtt", to |-> Suffix(recipient, 5)]
    ELSE [channel |-> "none", to |-> recipient]

\* One pass of send_alerts' loop body: the ways the call for one recipient
\* can end.  An unrecognized recipient is logged by logger.error.
SendTo(recipient, ch) ==
    LET r == Route(recipient)
    IN  CASE r.channel = "Email" -> send_email(ch)
          [] r.channel = "TwitterDM" -> twitter_send(ch)
          [] r.channel = "Tweet" -> twitter_send(ch)
          [] r.channel = "Twilio" -> send_sms(ch)
          [] r.channel = "Jabber" -> send_msg(ch)
          [] r.channel = "Mqtt" -> publish(ch)
          [] OTHER -> { Call("unrecognized", 0, ch.connected, ch.started) }

\* The state send_alerts runs in and leaves: the attempts made so far, in
\* order, whether an exception is propagating, the time spent, and the state
\* of the senders.
Entry(recipient, c) ==
    [channel |-> Route(recipient).channel, to |-> Route(recipient).to,
     outcome |-> c.outcome]

After(acc, recipient, c) ==
    [log |-> Append(acc.log, Entry(recipient, c)),
     raised |-> (c.outcome = "raised"),
     elapsed |-> acc.elapsed + c.elapsed,
     jabber |-> acc.jabber,
     connected |-> c.connected,
     started |-> c.started]

\* `for recipient in recipients` from position i on: an exception ends the
\* loop, anything else goes on to the next recipient.
RECURSIVE SendFrom(_, _, _)
SendFrom(recipients, i, acc) ==
    IF i > Len(recipients)
    THEN { acc }
    ELSE UNION { LET a == After(acc, recipients[i], c)
                 IN  IF a.raised THEN { a }
                     ELSE SendFrom(recipients, i + 1, a)
                 : c \in SendTo(recipients[i], acc) }

\* send_alerts(logger, alert_senders, recipients, subject, msg): the set of
\* ways the call can end, given the senders' state.
send_alerts(recipients, ch) ==
    SendFrom(recipients, 1,
             [log |-> << >>, raised |-> FALSE, elapsed |-> 0,
              jabber |-> ch.jabber, connected |-> ch.connected,
              started |-> ch.started])

----------------------------------------------------------------------------
\* The poll loop of PiGarageAlert.main.

\* status_report_countdown: its first value and the value it is reset to.
StatusFirst == 5
StatusPeriod == 600

\* get_garage_door_state(pin)
get_garage_door_state(pin) == IF gpio[pin] THEN "open" ELSE "closed"

\* round(time_in_state) of a non-negative time: to the nearest whole second,
\* a half rounding up.
Round(units) == (2 * units + Res) \div (2 * Res)

\* create_event(door, state, time_in_state) at clock value t; the timestamp
\* has the resolution of a second.
create_event(door, state, time_in_state, t) ==
    [timestamp |-> t \div Res, door |-> door, state |-> state,
     time |-> time_in_state]

\* Fires with the state test left out.
FiresInAnyState(alert, time_in_state, state) ==
    time_in_state > alert.time * Res

\* Fires with >= for >.
FiresAtThreshold(alert, time_in_state, state) ==
    time_in_state >= alert.time * Res /\ state = alert.state

\* `time_in_state > alert['time'] and state == alert['state']`; alert['time']
\* is in seconds.
Fires(alert, time_in_state, state) ==
    time_in_state > alert.time * Res /\ state = alert.state

\* LastRecipients read after alert_states[name] = 0: index -1, the last alert.
LastRecipientsAfterReset(door, cursor) ==
    door.alerts[Len(door.alerts)].recipients

\* `door['alerts'][alert_states[name] - 1]['recipients']`: the recipients of
\* the alert sent last (sequences here start at 1).
LastRecipients(door, cursor) == door.alerts[cursor].recipients

\* What a pass over one door has done so far: the cursor (alert_states[name]),
\* time_in_state, the events handed to send_alerts, the time spent in
\* send_alerts, whether an exception is propagating, and the senders' state.
Pass(cursor, tis, events, s) ==
    [cursor |-> cursor, time_in_state |-> tis, events |-> events,
     raised |-> s.raised, elapsed |-> s.elapsed, jabber |-> s.jabber,
     connected |-> s.connected, started |-> s.started]

Idle(ch) ==
    [raised |-> FALSE, elapsed |-> 0, jabber |-> ch.jabber,
     connected |-> ch.connected, started |-> ch.started]

Sent(kind, rule, recipients, event, s) ==
    [kind |-> kind, rule |-> rule, recipients |-> recipients,
     event |-> event, log |-> s.log]

\* ChangePhase without `alert_states[name] = 0` and `time_in_state = 0`.
ChangePhaseNoReset(door, state, changed, cursor, tis, t, ch) ==
    IF changed /\ cursor > 0
    THEN { Pass(cursor, tis,
                << Sent("closing", cursor, LastRecipients(door, cursor),
                        create_event(door.name, state, Round(tis), t), s) >>,
                s)
           : s \in send_alerts(LastRecipients(door, cursor), ch) }
    ELSE { Pass(cursor, tis, << >>, Idle(ch)) }

\* ChangePhase without `if alert_states[name] > 0:`: with the cursor at 0 the
\* index is -1, the last alert of the list.
ChangePhaseAlwaysCloses(door, state, changed, cursor, tis, t, ch) ==
    IF changed /\ Len(door.alerts) > 0
    THEN LET last == IF cursor > 0 THEN cursor ELSE Len(door.alerts)
         IN  { Pass(IF s.raised THEN cursor ELSE 0, 0,
                    << Sent("closing", last, LastRecipients(door, last),
                            create_event(door.name, state, Round(tis), t),
                            s) >>,
                    s)
               : s \in send_alerts(LastRecipients(door, last), ch) }
    ELSE { Pass(cursor, IF changed THEN 0 ELSE tis, << >>, Idle(ch)) }

\* `if door_states[name] != state:` ... `time_in_state = 0`.  The alert sent
\* last is closed when there is one; alert_states[name] = 0 is not reached
\* when send_alerts raises.
ChangePhase(door, state, changed, cursor, tis, t, ch) ==
    IF changed
    THEN IF cursor > 0
         THEN { Pass(IF s.raised THEN cursor ELSE 0, 0,
                     << Sent("closing", cursor, LastRecipients(door, cursor),
                             create_event(door.name, state, Round(tis), t),
                             s) >>,
                     s)
                : s \in send_alerts(LastRecipients(door, cursor), ch) }
         ELSE { Pass(cursor, 0, << >>, Idle(ch)) }
    ELSE { Pass(cursor, tis, << >>, Idle(ch)) }

\* AlertPhase without `alert_states[name] += 1`.
AlertPhaseNoAdvance(door, state, t, r) ==
    IF r.raised \/ ~(Len(door.alerts) > r.cursor)
    THEN { r }
    ELSE LET alert == door.alerts[r.cursor + 1]
         IN  IF Fires(alert, r.time_in_state, state)
             THEN { Pass(r.cursor, r.time_in_state,
                         Append(r.events,
                                Sent("alert", r.cursor + 1, alert.recipients,
                                     create_event(door.name, state,
                                                  Round(r.time_in_state),
                                                  t + r.elapsed),
                                     s)),
                         [s EXCEPT !.elapsed = r.elapsed + s.elapsed])
                    : s \in send_alerts(alert.recipients, r) }
             ELSE { r }

\* AlertPhase without `if len(door['alerts']) > alert_states[name]:`, the
\* list being read round and round.
AlertPhaseNoLimit(door, state, t, r) ==
    IF r.raised \/ Len(door.alerts) = 0
    THEN { r }
    ELSE LET alert == door.alerts[(r.cursor % Len(door.alerts)) + 1]
         IN  IF Fires(alert, r.time_in_state, state)
             THEN { Pass(IF s.raised THEN r.cursor ELSE r.cursor + 1,
                         r.time_in_state,
                         Append(r.events,
                                Sent("alert", r.cursor + 1, alert.recipients,
                                     create_event(door.name, state,
                                                  Round(r.time_in_state),
                                                  t + r.elapsed),
                                     s)),
                         [s EXCEPT !.elapsed = r.elapsed + s.elapsed])
                    : s \in send_alerts(alert.recipients, r) }
             ELSE { r }

\* AlertPhase with every alert after the cursor examined: the event of the
\* last one whose test is true is sent and the cursor is moved past it.
AlertPhaseAnyRule(door, state, t, r) ==
    LET due == { k \in (r.cursor + 1)..Len(door.alerts) :
                   Fires(door.alerts[k], r.time_in_state, state) }
    IN  IF r.raised \/ due = {}
        THEN { r }
        ELSE LET k == CHOOSE k \in due : \A j \in due : j <= k
                 alert == door.alerts[k]
             IN  { Pass(IF s.raised THEN r.cursor ELSE k,
                        r.time_in_state,
                        Append(r.events,
                               Sent("alert", k, alert.recipients,
                                    create_event(door.name, state,
                                                 Round(r.time_in_state),
                                                 t + r.elapsed),
                                    s)),
                        [s EXCEPT !.elapsed = r.elapsed + s.elapsed])
                   : s \in send_alerts(alert.recipients, r) }

\* `if len(door['alerts']) > alert_states[name]:` ... `alert_states[name] += 1`,
\* run after the change phase left r; the increment is not reached when
\* send_alerts raises.
AlertPhase(door, state, t, r) ==
    IF r.raised \/ ~(Len(door.alerts) > r.cursor)
    THEN { r }
    ELSE LET alert == door.alerts[r.cursor + 1]
         IN  IF Fires(alert, r.time_in_state, state)
             THEN { Pass(IF s.raised THEN r.cursor ELSE r.cursor + 1,
                         r.time_in_state,
                         Append(r.events,
                                Sent("alert", r.cursor + 1, alert.recipients,
                                     create_event(door.name, state,
                                                  Round(r.time_in_state),
                                                  t + r.elapsed),
                                     s)),
                         [s EXCEPT !.elapsed = r.elapsed + s.elapsed])
                    : s \in send_alerts(alert.recipients, r) }
             ELSE { r }

\* The body of `for door in cfg.GARAGE_DOORS` for one door.
DoorPass(door, state, changed, cursor, tis, t, ch) ==
    UNION { AlertPhase(door, state, t, r)
            : r \in ChangePhase(door, state, changed, cursor, tis, t, ch) }

\* TransitionTime with the assignment moved out of the `if`.
TransitionTimeEveryPass(changed, old, t) == t

\* `time_of_last_state_change[name] = time.time()`, which stands under
\* `if door_states[name] != state:`; old is the entry before the pass.
TransitionTime(changed, old, t) == IF changed THEN t ELSE old

NoOut ==
    [door |-> "", changed |-> FALSE, exited |-> 0, previous |-> 0,
     time_in_state |-> 0, cursor |-> 0, events |-> << >>, raised |-> FALSE]

\* The door named n, and its 'alerts'.
DoorOf(n) == doors[CHOOSE i \in 1..Len(doors) : doors[i].name = n]
AlertsOf(n) == DoorOf(n).alerts

\* The alert events among the events of one pass, as the alerts' positions.
AlertsSent(events) ==
    { k \in 1..Len(events) : events[k].kind = "alert" }

\* The record of what was sent for each alert of a door since the door's
\* last observed change, after a pass that sent `events`.
Count(old, changed, events) ==
    [i \in DOMAIN old |->
        (IF changed THEN 0 ELSE old[i])
        + Cardinality({ k \in AlertsSent(events) : events[k].rule = i })]

NoLocal == [state |-> "", time_in_state |-> 0]
NoMessage == [type |-> "", from |-> << >>, body |-> << >>]
NoReply == [kind |-> "none", msg |-> NoMessage, entries |-> << >>]
NoText == [channel |-> "none", msg |-> << >>, handed |-> FALSE,
           api |-> << >>]

\* cfg.JABBER_AUTHORIZED_IDS: the attribute may be missing.
Ids(defined, ids) == [defined |-> defined, ids |-> ids]
owner == "owner@example.org"
stranger == "stranger@example.org"

\* The state main starts in, for a configuration out of cfgs and an
\* authorization list out of lists.
InitWith(cfgs, lists) ==
    /\ doors \in cfgs
    /\ authorized_ids \in lists
    /\ gpio \in [Pins(doors) -> BOOLEAN]
    /\ now = 0
    /\ pc = "start"
    /\ reason = "none"
    /\ idx = 1
    /\ door_states = << >>
    /\ time_of_last_state_change = << >>
    /\ alert_states = << >>
    /\ status_report_countdown = StatusFirst
    /\ jabber_connected = FALSE
    /\ mqtt_connected = FALSE
    /\ mqtt_started = FALSE
    /\ sensed_at = << >>
    /\ fired = << >>
    /\ out = NoOut
    /\ senders_bound = FALSE
    /\ gpio_clean = FALSE
    /\ jabber_terminated = FALSE
    /\ fault = "none"
    /\ local = NoLocal
    /\ stored_at = << >>
    /\ reply = NoReply
    /\ text = NoText

Init == InitWith(Configs, { Ids(TRUE, {owner}) })

\* main up to `door_states = dict()`: logging and the GPIO pins are set up;
\* any of the calls may raise.
Setup ==
    /\ pc = "start"
    /\ \/ pc' = "senders" /\ fault' = fault /\ reason' = reason
       \/ pc' = "except" /\ fault' = "setup" /\ reason' = "error"
    /\ UNCHANGED <<doors, gpio, now, idx, door_states,
                   time_of_last_state_change, alert_states,
                   status_report_countdown, jabber_connected, mqtt_connected,
                   mqtt_started, sensed_at, fired, out, senders_bound,
                   gpio_clean, jabber_terminated, local, stored_at, reply,
                   text, authorized_ids>>

\* `alert_senders = {...}`: Jabber(door_states, time_of_last_state_change)
\* connects and starts its threads, or does not; Mqtt() reads its settings
\* from cfg and raises when one is missing, after the Jabber client was
\* made.  alert_senders is assigned when every sender has been made.
CreateSenders ==
    /\ pc = "senders"
    /\ \E c \in BOOLEAN : jabber_connected' = c
    /\ \/ /\ senders_bound' = TRUE
          /\ pc' = "initial"
          /\ fault' = fault
          /\ reason' = reason
       \/ /\ senders_bound' = FALSE
          /\ pc' = "except"
          /\ fault' = "senders"
          /\ reason' = "error"
    /\ idx' = 1
    /\ UNCHANGED <<doors, gpio, now, door_states, time_of_last_state_change,
                   alert_states, status_report_countdown, mqtt_connected,
                   mqtt_started, sensed_at, fired, out, gpio_clean,
                   jabber_terminated, local, stored_at, reply, text, authorized_ids>>

\* One pass of `for door in cfg.GARAGE_DOORS` under "Read initial states",
\* and `status_report_countdown = 5` after the last.
ReadInitial ==
    /\ pc = "initial"
    /\ LET name == doors[idx].name
       IN  /\ door_states' =
                 (name :> get_garage_door_state(doors[idx].pin))
                 @@ door_states
           /\ time_of_last_state_change' =
                 (name :> now) @@ time_of_last_state_change
           /\ alert_states' = (name :> 0) @@ alert_states
           /\ sensed_at' = (name :> now) @@ sensed_at
           /\ stored_at' = (name :> now) @@ stored_at
           /\ fired' = (name :> [i \in 1..Len(doors[idx].alerts) |-> 0])
                       @@ fired
    /\ IF idx < Len(doors)
       THEN pc' = "initial" /\ idx' = idx + 1
       ELSE pc' = "loop" /\ idx' = 1
    /\ status_report_countdown' = StatusFirst
    /\ UNCHANGED <<doors, gpio, now, reason, jabber_connected, mqtt_connected,
                   mqtt_started, out, senders_bound, gpio_clean,
                   jabber_terminated, fault, local, reply, text, authorized_ids>>

\* main up to the loop.
Startup == Setup \/ CreateSenders \/ ReadInitial

\* get_garage_door_state raises: GPIO.input fails for the door at idx, in
\* the initial reads or in the loop.  Nothing between the call and main's
\* except clause catches it.
SensorFault ==
    /\ pc \in {"initial", "loop"}
    /\ pc' = "except"
    /\ reason' = "error"
    /\ fault' = IF pc = "loop" THEN "sensor" ELSE "initial read"
    /\ UNCHANGED <<doors, gpio, now, idx, door_states,
                   time_of_last_state_change, alert_states,
                   status_report_countdown, jabber_connected, mqtt_connected,
                   mqtt_started, sensed_at, fired, out, senders_bound,
                   gpio_clean, jabber_terminated, local, stored_at, reply,
                   text, authorized_ids>>

\* The body of `for door in cfg.GARAGE_DOORS` from the assignments of an
\* observed change on, for the door at idx, with what was read and computed
\* on lines 619-623.  Runs are followed up to the time `limit`.
FinishPass(door, state, changed, tis, limit) ==
    LET name == door.name
        ch == [jabber |-> jabber_connected, connected |-> mqtt_connected,
               started |-> mqtt_started]
    IN  /\ \E r \in DoorPass(door, state, changed, alert_states[name],
                             tis, now, ch) :
             /\ now + r.elapsed <= limit
             /\ door_states' = [door_states EXCEPT ![name] = state]
             /\ time_of_last_state_change' =
                  [time_of_last_state_change EXCEPT
                     ![name] = TransitionTime(changed, @, now)]
             /\ alert_states' = [alert_states EXCEPT ![name] = r.cursor]
             /\ now' = now + r.elapsed
             /\ mqtt_connected' = r.connected
             /\ mqtt_started' = r.started
             /\ sensed_at' = [sensed_at EXCEPT ![name] = now]
             /\ fired' = [fired EXCEPT
                            ![name] = Count(fired[name], changed, r.events)]
             /\ out' = [door |-> name, changed |-> changed, exited |-> tis,
                        previous |-> sensed_at[name]
                                     - time_of_last_state_change[name],
                        time_in_state |-> r.time_in_state,
                        cursor |-> alert_states[name],
                        events |-> r.events, raised |-> r.raised]
             /\ stored_at' = IF changed
                             THEN [stored_at EXCEPT ![name] = now]
                             ELSE stored_at
             /\ fault' = IF r.raised THEN "send_alerts" ELSE fault
             /\ IF r.raised
                THEN pc' = "except" /\ reason' = "error" /\ idx' = idx
                ELSE /\ reason' = reason
                     /\ IF idx < Len(doors)
                        THEN pc' = "loop" /\ idx' = idx + 1
                        ELSE pc' = "status" /\ idx' = 1
        /\ UNCHANGED <<doors, gpio, status_report_countdown,
                       jabber_connected, senders_bound, gpio_clean,
                       jabber_terminated, reply, text, authorized_ids>>

\* One pass of `for door in cfg.GARAGE_DOORS`, for the door at idx.
PollWithin(limit) ==
    /\ pc = "loop"
    /\ LET door == doors[idx]
           state == get_garage_door_state(door.pin)
           tis == now - time_of_last_state_change[door.name]
           changed == door_states[door.name] # state
       IN  FinishPass(door, state, changed, tis, limit)
    /\ UNCHANGED local

PollDoor == PollWithin(MaxNow)

\* The pass over the door at idx up to `door_states[name] = state`, when the
\* sensor shows another state than the stored one: the new state is stored,
\* time_of_last_state_change[name] is not assigned yet.
PollObserve ==
    /\ pc = "loop"
    /\ LET door == doors[idx]
           state == get_garage_door_state(door.pin)
           tis == now - time_of_last_state_change[door.name]
       IN  /\ door_states[door.name] # state
           /\ door_states' = [door_states EXCEPT ![door.name] = state]
           /\ stored_at' = [stored_at EXCEPT ![door.name] = now]
           /\ local' = [state |-> state, time_in_state |-> tis]
    /\ pc' = "changed"
    /\ UNCHANGED <<doors, gpio, now, reason, idx, time_of_last_state_change,
                   alert_states, status_report_countdown, jabber_connected,
                   mqtt_connected, mqtt_started, sensed_at, fired, out,
                   senders_bound, gpio_clean, jabber_terminated, fault, reply,
                   text, authorized_ids>>

\* The rest of that pass, from `time_of_last_state_change[name] = time.time()`.
PollCommit ==
    /\ pc = "changed"
    /\ FinishPass(doors[idx], local.state, TRUE, local.time_in_state, MaxNow)
    /\ local' = NoLocal

\* The end of the loop body: the status report countdown and time.sleep(1).
SleepWithin(limit) ==
    /\ pc = "status"
    /\ now + Res <= limit
    /\ status_report_countdown' =
          IF status_report_countdown - 1 <= 0
          THEN StatusPeriod
          ELSE status_report_countdown - 1
    /\ now' = now + Res
    /\ pc' = "loop"
    /\ UNCHANGED <<doors, gpio, reason, idx, door_states,
                   time_of_last_state_change, alert_states, jabber_connected,
                   mqtt_connected, mqtt_started, sensed_at, fired, out,
                   senders_bound, gpio_clean, jabber_terminated, fault, local,
                   stored_at, reply, text, authorized_ids>>

Sleep == SleepWithin(MaxNow)

\* A door moves: the level of its sensor pin changes.
Toggle ==
    /\ pc \in {"loop", "status"}
    /\ \E p \in Pins(doors) : gpio' = [gpio EXCEPT ![p] = ~gpio[p]]
    /\ UNCHANGED <<doors, now, pc, reason, idx, door_states,
                   time_of_last_state_change, alert_states,
                   status_report_countdown, jabber_connected, mqtt_connected,
                   mqtt_started, sensed_at, fired, out, senders_bound,
                   gpio_clean, jabber_terminated, fault, local, stored_at,
                   reply, text, authorized_ids>>

\* Mqtt.mqtt_on_connect, on the MQTT client's thread.
mqtt_on_connect ==
    /\ mqtt_started
    /\ ~mqtt_connected
    /\ pc \notin {"done", "crashed"}
    /\ mqtt_connected' = TRUE
    /\ UNCHANGED <<doors, gpio, now, pc, reason, idx, door_states,
                   time_of_last_state_change, alert_states,
                   status_report_countdown, jabber_connected, mqtt_started,
                   sensed_at, fired, out, senders_bound, gpio_clean,
                   jabber_terminated, fault, local, stored_at, reply, text, authorized_ids>>

\* The operator's interrupt: KeyboardInterrupt is raised in main.
Interrupt ==
    /\ pc \in {"start", "senders", "initial", "loop", "changed", "status"}
    /\ pc' = "except"
    /\ reason' = "KeyboardInterrupt"
    /\ UNCHANGED <<doors, gpio, now, idx, door_states,
                   time_of_last_state_change, alert_states,
                   status_report_countdown, jabber_connected, mqtt_connected,
                   mqtt_started, sensed_at, fired, out, senders_bound,
                   gpio_clean, jabber_terminated, fault, local, stored_at,
                   reply, text, authorized_ids>>

\* main's except clauses and what follows them: GPIO.cleanup(), then
\* alert_senders['Jabber'].terminate(), which disconnects a connected client.
\* The name alert_senders is unbound when the exception came before its
\* assignment: the lookup raises and the exception leaves main.
Terminate ==
    /\ pc = "except"
    /\ gpio_clean' = TRUE
    /\ IF senders_bound
       THEN pc' = "done" /\ jabber_terminated' = jabber_connected
       ELSE pc' = "crashed" /\ jabber_terminated' = jabber_terminated
    /\ UNCHANGED <<doors, gpio, now, reason, idx, door_states,
                   time_of_last_state_change, alert_states,
                   status_report_countdown, jabber_connected, mqtt_connected,
                   mqtt_started, sensed_at, fired, out, senders_bound, fault,
                   local, stored_at, reply, text, authorized_ids>>

Next ==
    \/ Startup
    \/ PollDoor
    \/ Sleep
    \/ SensorFault
    \/ Toggle
    \/ mqtt_on_connect
    \/ Interrupt
    \/ Terminate

Spec == Init /\ [][Next]_vars

-----------------------------------------------------------------------------
\* The Jabber client's thread.  Jabber.__init__ keeps references to main's
\* door_states and time_of_last_state_change and registers handle_message;
\* once the client is connected its threads run beside main.

\* format_duration, for a duration in clock units; the text as the numbers
\* the formats print with the words that follow them.  `%d` drops the
\* fraction of a second.
format_duration(duration) ==
    LET sec == duration \div Res
        days == sec \div 86400
        hours == (sec % 86400) \div 3600
        minutes == (sec % 3600) \div 60
        seconds == sec % 60
        d == IF days > 1 THEN << <<days, "days ">> >>
             ELSE IF days = 1 THEN << <<days, "day ">> >> ELSE << >>
        h == IF hours > 1 THEN << <<hours, "hours ">> >>
             ELSE IF hours = 1 THEN << <<hours, "hour ">> >> ELSE << >>
        m == (IF minutes > 1 THEN << <<minutes, "minutes">> >> ELSE << >>)
             \o (IF minutes = 1 THEN << <<minutes, "minute">> >> ELSE << >>)
        ret == d \o h \o m
    IN  IF ret = << >> THEN << <<seconds, "seconds">> >> ELSE ret

\* str.lower(), over the letters the message bodies are written with.
Capitals == <<"A", "E", "N", "O", "P", "S", "T", "U">>
Smalls == <<"a", "e", "n", "o", "p", "s", "t", "u">>
lower(str) ==
    [i \in 1..Len(str) |->
        IF \E k \in 1..Len(Capitals) : Capitals[k] = str[i]
        THEN Smalls[CHOOSE k \in 1..Len(Capitals) : Capitals[k] = str[i]]
        ELSE str[i]]

status == <<"s", "t", "a", "t", "u", "s">>
Status == <<"S", "t", "a", "t", "u", "s">>
open == <<"o", "p", "e", "n">>

\* A JID is <<bare JID, resource>>; msg['from'].bare.
bare(jid) == jid[1]

\* The messages the client may be sent.
Messages ==
    { [type |-> t, from |-> <<f, "phone">>, body |-> b] :
        t \in {"chat", "normal", "groupchat"},
        f \in {owner, stranger},
        b \in {status, Status, open} }

\* What handle_message does with msg: the reply it sends ("status", with
\* one entry per door of cfg.GARAGE_DOORS, or "unknown command"), or no
\* reply: the message is passed over ("dropped"), the sender is logged as
\* unauthorized, or the lookup of a door raises KeyError.
handle_message(msg) ==
    LET answer(kind, entries) ==
            [kind |-> kind, msg |-> msg, entries |-> entries]
    IN  IF msg.type \in {"chat", "normal"} /\ authorized_ids.defined
        THEN IF bare(msg.from) \in authorized_ids.ids
             THEN IF lower(msg.body) = status
                  THEN IF \A i \in 1..Len(doors) :
                            doors[i].name \in DOMAIN door_states
                       THEN answer("status",
                              [i \in 1..Len(doors) |->
                                 LET name == doors[i].name
                                     how_long ==
                                       now - time_of_last_state_change[name]
                                 IN  [name |-> name,
                                      state |-> door_states[name],
                                      how_long |-> how_long,
                                      duration |->
                                        format_duration(how_long)]])
                       ELSE answer("KeyError", << >>)
                  ELSE answer("unknown command", << >>)
             ELSE answer("unauthorized", << >>)
        ELSE answer("dropped", << >>)

\* The client's thread runs handle_message for a message that came in.
HandleMessage ==
    /\ jabber_connected
    /\ ~jabber_terminated
    /\ reply = NoReply
    /\ \E msg \in Messages : reply' = handle_message(msg)
    /\ UNCHANGED <<doors, gpio, now, pc, reason, idx, door_states,
                   time_of_last_state_change, alert_states,
                   status_report_countdown, jabber_connected, mqtt_connected,
                   mqtt_started, sensed_at, fired, out, senders_bound,
                   gpio_clean, jabber_terminated, fault, local, stored_at,
                   text, authorized_ids>>

\* handle_message has returned.
HandlerReturns ==
    /\ reply # NoReply
    /\ reply' = NoReply
    /\ UNCHANGED <<doors, gpio, now, pc, reason, idx, door_states,
                   time_of_last_state_change, alert_states,
                   status_report_countdown, jabber_connected, mqtt_connected,
                   mqtt_started, sensed_at, fired, out, senders_bound,
                   gpio_clean, jabber_terminated, fault, local, stored_at,
                   text, authorized_ids>>

\* The configurations and authorization lists of the runs with the client's
\* thread.
ThreadConfigs ==
    { << Door("A", 1, AlertsMqtt) >>,
      << Door("A", 1, AlertsNone), Door("B", 2, AlertsNone) >> }
ThreadIds == { Ids(FALSE, {}), Ids(TRUE, {owner}) }

InitThreads == InitWith(ThreadConfigs, ThreadIds)

\* main with the pass over a door in two steps, and the client's thread.
NextThreads ==
    \/ Next
    \/ PollObserve
    \/ PollCommit
    \/ HandleMessage
    \/ HandlerReturns

SpecThreads == InitThreads /\ [][NextThreads]_vars

-----------------------------------------------------------------------------
\* One run of main, second by second: the door "Main" with an alert for
\* email:a after 60 seconds open and one for sms:b after 300 seconds open.
\* The door is open from time 0 on and closes just before the pass at 310
\* seconds; the passes are one second apart, no call taking any time.

ScenarioEnd == 311

ScenarioDoors ==
    << Door("Main", 1, << Alert("open", 60, <<email_a>>),
                          Alert("open", 300, <<sms_b>>) >>) >>

InitScenario == InitWith({ ScenarioDoors }, { Ids(TRUE, {owner}) })

\* The door opens at time 0, before main's first pass, when main did not
\* find it open already; it closes between the passes at 309 and at 310
\* seconds.
ScenarioMove ==
    /\ \/ /\ ~gpio[1]
          /\ now = 0
          /\ pc \in {"start", "senders", "initial", "loop"}
          /\ out = NoOut
       \/ /\ gpio[1]
          /\ \/ pc = "status" /\ now = 309 * Res
             \/ pc = "loop" /\ now = 310 * Res
    /\ Toggle

\* A pass that finds the door as the scenario has it at that time, and
\* takes no time.
ScenarioPoll ==
    /\ gpio[1] <=> now < 310 * Res
    /\ PollWithin(ScenarioEnd * Res)
    /\ now' = now

ScenarioSleep == SleepWithin(ScenarioEnd * Res)

NextScenario ==
    \/ Startup
    \/ ScenarioMove
    \/ ScenarioPoll
    \/ ScenarioSleep
    \/ Terminate

SpecScenario == InitScenario /\ [][NextScenario]_vars

-----------------------------------------------------------------------------
\* The texts Twilio.send_sms, Twitter.direct_msg and Twitter.update_status
\* hand to their services.  A message is the sequence of its characters; the
\* character at position i of a message is written i, a character of the
\* time stamp is written as a negative number and a full stop as 0.

MaxMsgLen == 145
TextLimit == 140
StampLen == 21

TextMessages == { [i \in 1..n |-> i] : n \in 0..MaxMsgLen }

ellipsis == <<0, 0, 0>>

\* strftime("%Y-%m-%d %H:%M:%S: ")
Stamp == [i \in 1..StampLen |-> 0 - i]

\* input_str[:n], for n >= 0: the whole string when it has no more than n
\* characters.
slice(input_str, n) ==
    SubSeq(input_str, 1, IF n < Len(input_str) THEN n ELSE Len(input_str))

\* truncate with the cut at `length`.
TruncateAtLength(input_str, length) ==
    IF Len(input_str) < length - 3
    THEN input_str
    ELSE slice(input_str, length) \o ellipsis

\* truncate(input_str, length)
truncate(input_str, length) ==
    IF Len(input_str) < length - 3
    THEN input_str
    ELSE slice(input_str, length - 3) \o ellipsis

\* The text a call hands to its service: send_sms truncates msg, the Twitter
\* calls put the time stamp before msg and truncate the result.
ApiText(channel, msg) ==
    IF channel = "sms"
    THEN truncate(msg, TextLimit)
    ELSE truncate(Stamp \o msg, TextLimit)

\* One call of send_sms, direct_msg or update_status with msg.  Nothing is
\* handed over when the client is not configured (twilio_client or
\* twitter_api is None).
HandText ==
    /\ \E channel \in {"sms", "twitter_dm", "tweet"}, msg \in TextMessages,
          configured \in BOOLEAN :
          text' = [channel |-> channel, msg |-> msg, handed |-> configured,
                   api |-> IF configured THEN ApiText(channel, msg)
                           ELSE << >>]
    /\ UNCHANGED <<doors, gpio, now, pc, reason, idx, door_states,
                   time_of_last_state_change, alert_states,
                   status_report_countdown, jabber_connected, mqtt_connected,
                   mqtt_started, sensed_at, fired, out, senders_bound,
                   gpio_clean, jabber_terminated, fault, local, stored_at,
                   reply, authorized_ids>>

InitText == InitWith({ << Door("A", 1, AlertsNone) >> }, { Ids(TRUE, {owner}) })

SpecText == InitText /\ [][HandText]_vars

----------------------------------------------------------------------------
\* The properties.  `out` describes the last pass over a door: the door, its
\* cursor before the pass, whether a change was observed, the time in the
\* state exited, time_in_state as the alert test saw it, and the events
\* handed to send_alerts, each with the attempts made for it.

Passed == out.door # ""
OutAlerts == AlertsOf(out.door)
OutState == door_states[out.door]

\* The number of alert events of the last pass that are for alert i.
SentFor(i) ==
    Cardinality({ k \in AlertsSent(out.events) : out.events[k].rule = i })

\* The closing events of the last pass.
Closings == { k \in 1..Len(out.events) : out.events[k].kind = "closing" }

\* The cursor the alert test of the last pass read.
TestedCursor == IF out.changed THEN 0 ELSE out.cursor

Ascending(alerts) ==
    \A i, j \in 1..Len(alerts) : i < j => alerts[i].time < alerts[j].time

\* C1 as stated: for a door with ascending thresholds, on a pass that observes
\* no change, the event of alert i is sent, once, exactly when time_in_state
\* exceeds the alert's threshold for the first time since the door entered
\* its state.
C1AsStated ==
    (Passed /\ ~out.changed /\ Ascending(OutAlerts)) =>
        \A i \in 1..Len(OutAlerts) :
            (SentFor(i) = 1)
            <=> /\ out.time_in_state > OutAlerts[i].time * Res
                /\ out.previous <= OutAlerts[i].time * Res

\* C1, amended: on every pass the event of alert i is sent, once, exactly when
\* alert i is the alert at the cursor, the door is in the alert's state and
\* time_in_state exceeds the alert's threshold; no other alert event is sent.
C1Amended ==
    Passed =>
        /\ \A i \in 1..Len(OutAlerts) :
              SentFor(i) =
                  IF /\ TestedCursor = i - 1
                     /\ OutState = OutAlerts[i].state
                     /\ out.time_in_state > OutAlerts[i].time * Res
                  THEN 1 ELSE 0
        /\ \A k \in AlertsSent(out.events) :
              out.events[k].rule \in 1..Len(OutAlerts)

\* A pass that observed no change sent the event of a door's second alert.
C1Witness ==
    /\ Passed
    /\ ~out.changed
    /\ SentFor(2) = 1
    /\ out.time_in_state > OutAlerts[2].time * Res

\* C2: between two observed changes of a door, no alert of the door has its
\* event sent twice.
C2NeverTwice ==
    \A n \in DOMAIN fired : \A i \in DOMAIN fired[n] : fired[n][i] <= 1

\* A door stayed in the state of an alert already sent, time_in_state still
\* over the threshold, and the pass sent nothing.
C2Witness ==
    /\ Passed
    /\ ~out.changed
    /\ out.cursor >= 1
    /\ fired[out.door][out.cursor] = 1
    /\ OutState = OutAlerts[out.cursor].state
    /\ out.time_in_state > OutAlerts[out.cursor].time * Res
    /\ out.events = << >>

\* C3: after a pass that observed a change the door's cursor is 0, and a pass
\* that observed none did not decrease it.
C3CursorReset ==
    Passed =>
        IF out.changed
        THEN alert_states[out.door] = 0
        ELSE alert_states[out.door] >= out.cursor

\* C4 as stated: a change observed with the cursor at k > 0 sends exactly one
\* closing event, to the recipients of alert k (the k-th, counting from 1),
\* with the new state and a time equal to the time spent in the state exited,
\* the cursor still at k when it is sent.
C4AsStated ==
    (Passed /\ out.changed /\ out.cursor > 0) =>
        /\ Cardinality(Closings) = 1
        /\ \A k \in Closings :
              /\ out.events[k].recipients = OutAlerts[out.cursor].recipients
              /\ out.events[k].rule = out.cursor
              /\ out.events[k].event.state = OutState
              /\ out.events[k].event.time * Res = out.exited

\* C4, amended: the same, the time being the time spent in the state exited
\* rounded to the nearest whole second.
C4Amended ==
    /\ (Passed /\ out.changed /\ out.cursor > 0) =>
          /\ Cardinality(Closings) = 1
          /\ \A k \in Closings :
                /\ k = 1
                /\ out.events[k].recipients = OutAlerts[out.cursor].recipients
                /\ out.events[k].rule = out.cursor
                /\ out.events[k].event.door = out.door
                /\ out.events[k].event.state = OutState
                /\ out.events[k].event.time = Round(out.exited)
                /\ 2 * Res * out.events[k].event.time <= 2 * out.exited + Res
                /\ 2 * Res * out.events[k].event.time > 2 * out.exited - Res
    /\ (Passed /\ ~(out.changed /\ out.cursor > 0)) => Closings = {}

\* A change was observed with the first of two alerts sent last, after a time
\* in the state that is not a whole number of seconds.
C4Witness ==
    /\ Passed
    /\ out.changed
    /\ out.cursor = 1
    /\ Len(OutAlerts) = 2
    /\ Closings # {}
    /\ out.exited % Res # 0

\* C5: a pass over a door sends at most one event.
C5AtMostOne == Passed => Len(out.events) <= 1

\* A pass sent a closing event, and nothing else.
C5Witness ==
    /\ Passed
    /\ out.changed
    /\ Closings = {1}
    /\ ~out.raised

\* C6: with the door in the state of the alert at the cursor, a pass with
\* time_in_state equal to the threshold sends no alert event, and a pass with
\* time_in_state one second over the threshold sends the alert's event.
C6Strict ==
    (Passed /\ TestedCursor < Len(OutAlerts)
            /\ OutState = OutAlerts[TestedCursor + 1].state) =>
        /\ out.time_in_state = OutAlerts[TestedCursor + 1].time * Res
              => AlertsSent(out.events) = {}
        /\ out.time_in_state = (OutAlerts[TestedCursor + 1].time + 1) * Res
              => SentFor(TestedCursor + 1) = 1

\* A door had been in the state of the alert at its cursor for exactly the
\* alert's threshold, one second or more, and the pass sent nothing.
C6Witness ==
    /\ Passed
    /\ ~out.changed
    /\ TestedCursor < Len(OutAlerts)
    /\ OutState = OutAlerts[TestedCursor + 1].state
    /\ OutAlerts[TestedCursor + 1].time >= 1
    /\ out.time_in_state = OutAlerts[TestedCursor + 1].time * Res
    /\ out.events = << >>

\* The recipients of a send_alerts call that no branch of send_alerts handles.
Unrecognized(recipients) ==
    { i \in 1..Len(recipients) : Route(recipients[i]).channel = "none" }

\* C7: in every send_alerts call, every recipient of the list gets its
\* delivery attempt, whatever became of the attempts before it.
C7EveryRecipientTried ==
    \A k \in 1..Len(out.events) :
        \A i \in 1..Len(out.events[k].recipients) :
            /\ i <= Len(out.events[k].log)
            /\ out.events[k].log[i].channel
                 = Route(out.events[k].recipients[i]).channel

\* C8: a pass that sent the event of an alert leaves the door's cursor one
\* further, at the alert after the one sent, whatever the deliveries did.
C8CursorAdvances ==
    Passed =>
        \A k \in AlertsSent(out.events) :
            alert_states[out.door] = TestedCursor + 1

\* C9: in a send_alerts call whose list has an unrecognized recipient, the
\* unrecognized recipients, and only they, are reported as such, and every
\* recipient of the list gets its attempt.
C9UnrecognizedIsolated ==
    \A k \in 1..Len(out.events) :
        Unrecognized(out.events[k].recipients) # {} =>
            /\ Len(out.events[k].log) = Len(out.events[k].recipients)
            /\ \A i \in 1..Len(out.events[k].log) :
                  out.events[k].log[i].outcome = "unrecognized"
                  <=> i \in Unrecognized(out.events[k].recipients)

\* C10: a pass over one door that sent an event does not hold up the reading
\* of the next door: the next door is read no later than one poll period, a
\* second, after it was read last.
C10NextDoorOnSchedule ==
    (pc = "loop" /\ Passed /\ out.events # << >>
                 /\ doors[idx].name # out.door) =>
        now - sensed_at[doors[idx].name] <= Res

\* C11: on every tick and for every door, the transition timestamp changes
\* exactly when the stored state changes: a pass that stores another state
\* stores the time of the pass with it, and every other step of main leaves
\* the timestamp as it was.
C11TimestampWithState ==
    [][\A n \in DOMAIN door_states :
         IF door_states'[n] # door_states[n]
         THEN /\ time_of_last_state_change'[n] = now
              /\ now # time_of_last_state_change[n]
                 => time_of_last_state_change'[n]
                    # time_of_last_state_change[n]
         ELSE time_of_last_state_change'[n] = time_of_last_state_change[n]
      ]_vars

\* A pass has stored another state some time after the transition before,
\* and the timestamp is the time of that pass.
C11Witness ==
    /\ Passed
    /\ out.changed
    /\ out.exited > 0
    /\ time_of_last_state_change[out.door] = sensed_at[out.door]

\* C12: in every reachable state the cursor of every door is at least 0 and
\* at most the length of the door's alert list, a door without alerts
\* included (its cursor is 0).
C12CursorInRange ==
    \A n \in DOMAIN alert_states :
        alert_states[n] \in 0..Len(AlertsOf(n))

\* A pass found the cursor at the end of a list that is not empty, with the
\* door still in its state, and left it there.
C12Witness ==
    /\ Passed
    /\ ~out.changed
    /\ Len(OutAlerts) > 0
    /\ out.cursor = Len(OutAlerts)
    /\ alert_states[out.door] = Len(OutAlerts)

\* C13: whenever main has stopped, after an interrupt or after a fault at any
\* point of startup or of the loop, the same shutdown was performed: main
\* ended through its last statement, GPIO.cleanup() has run, a connected
\* Jabber client was disconnected and no MQTT network loop is left running.
C13OrderlyShutdown ==
    pc \in {"done", "crashed"}
    => /\ pc = "done"
       /\ gpio_clean
       /\ jabber_connected => jabber_terminated
       /\ ~mqtt_started

\* C14: a sensor read that fails for one door on a tick of the loop is
\* isolated to that door and tick: main does not stop for it, it goes on with
\* the other doors and the following ticks.
C14SensorFaultIsolated ==
    fault = "sensor" => pc \in {"loop", "status"}

\* C15: a status query never sees a half-updated door: for every door of a
\* status reply, the timestamp the duration was computed from is the time at
\* which the reported state was stored.
C15HandlerSeesOneTransition ==
    [][(reply.kind = "none" /\ reply'.kind = "status")
       => \A i \in DOMAIN reply'.entries :
             now - reply'.entries[i].how_long
             = stored_at[reply'.entries[i].name]
      ]_vars

\* C16: whenever door state can be read, by main's loop or by the handler
\* of a connected Jabber client, door_states, time_of_last_state_change and
\* alert_states hold an entry for every configured door and no other.
C16OneDoorStatePerDoor ==
    (pc \in {"loop", "changed", "status"}
     \/ (jabber_connected /\ ~jabber_terminated))
    => /\ DOMAIN door_states = Names(doors)
       /\ DOMAIN time_of_last_state_change = Names(doors)
       /\ DOMAIN alert_states = Names(doors)

\* The last pass was the tick at t seconds.
TickAt(t) == Passed /\ sensed_at[out.door] = t * Res

\* C17: in the scenario of the door "Main" (email:a after 60 seconds open,
\* sms:b after 300 seconds open, open from time 0, closed at 310, a pass
\* every second) the tick at 61 seconds sends one event to email:a and
\* leaves the cursor at 1, the tick at 301 seconds sends one event to sms:b
\* and leaves the cursor at 2, the tick at 310 seconds sends a closing event
\* with time 310 to sms:b and leaves the cursor at 0, and no other tick sends
\* an event.
C17Scenario ==
    Passed
    => LET events == out.events
           cursor == alert_states["Main"]
       IN  /\ TickAt(61)
              => /\ Len(events) = 1
                 /\ events[1].kind = "alert"
                 /\ events[1].recipients = <<email_a>>
                 /\ events[1].event.state = "open"
                 /\ cursor = 1
           /\ TickAt(301)
              => /\ Len(events) = 1
                 /\ events[1].kind = "alert"
                 /\ events[1].recipients = <<sms_b>>
                 /\ events[1].event.state = "open"
                 /\ cursor = 2
           /\ TickAt(310)
              => /\ Len(events) = 1
                 /\ events[1].kind = "closing"
                 /\ events[1].recipients = <<sms_b>>
                 /\ events[1].event.state = "closed"
                 /\ events[1].event.time = 310
                 /\ cursor = 0
           /\ ~(TickAt(61) \/ TickAt(301) \/ TickAt(310))
              => events = << >>

\* The tick at 310 seconds has sent the closing event, after the two alerts
\* were sent while the door was open.
C17Witness ==
    /\ doors = ScenarioDoors
    /\ TickAt(310)
    /\ out.changed
    /\ out.cursor = 2
    /\ Closings # {}

\* C18: a one-to-one message gets a status reply exactly when its sender is
\* authorized and its body is `status`; a status reply has one entry per
\* configured door, in the order of the configuration, with the door's name,
\* a state and the formatted duration; a sender that is not authorized gets
\* no reply of any kind.
C18StatusReplyIffAuthorized ==
    reply # NoReply
    => LET msg == reply.msg
           authorized == /\ authorized_ids.defined
                         /\ bare(msg.from) \in authorized_ids.ids
           replied == reply.kind \in {"status", "unknown command"}
       IN  /\ msg.type \in {"chat", "normal"}
              => (reply.kind = "status"
                  <=> authorized /\ msg.body = status)
           /\ reply.kind = "status"
              => /\ Len(reply.entries) = Len(doors)
                 /\ \A i \in 1..Len(doors) :
                       /\ reply.entries[i].name = doors[i].name
                       /\ reply.entries[i].state \in {"open", "closed"}
                       /\ reply.entries[i].duration
                          = format_duration(reply.entries[i].how_long)
           /\ ~authorized => ~replied

\* C19 as stated: every message of more than 140 characters that is handed
\* over by the SMS or a Twitter call arrives as 140 characters, the first
\* 137 characters of the message followed by three full stops.
C19AsStated ==
    (text.handed /\ Len(text.msg) > TextLimit)
    => /\ Len(text.api) = TextLimit
       /\ SubSeq(text.api, 1, TextLimit - 3)
          = SubSeq(text.msg, 1, TextLimit - 3)
       /\ SubSeq(text.api, TextLimit - 2, TextLimit) = ellipsis

\* C19 amended: such a message arrives as 140 characters that end in three
\* full stops; before them stand the first 137 characters of the message
\* for an SMS, and the time stamp of 21 characters followed by the first 116
\* characters of the message for a Twitter direct message or status.
C19Amended ==
    (text.handed /\ Len(text.msg) > TextLimit)
    => /\ Len(text.api) = TextLimit
       /\ SubSeq(text.api, TextLimit - 2, TextLimit) = ellipsis
       /\ SubSeq(text.api, 1, TextLimit - 3)
          = IF text.channel = "sms"
            THEN SubSeq(text.msg, 1, TextLimit - 3)
            ELSE Stamp \o SubSeq(text.msg, 1, TextLimit - 3 - StampLen)

\* A message of more than 140 characters was handed to Twitter as a direct
\* message.
C19Witness ==
    /\ text.handed
    /\ text.channel = "twitter_dm"
    /\ Len(text.msg) > TextLimit
    /\ Len(text.api) = TextLimit

\* The last pass was the tick after the one that observed the door's
\* transition (or after main's first reading of the door): the door has not
\* changed since, and the reading before this one is the one that stored
\* the transition time.
NextTick == Passed /\ ~out.changed /\ out.previous = 0 /\ out.exited > 0

\* The thresholds of the list do not go down.
Ordered(alerts) ==
    \A i, j \in 1..Len(alerts) : i < j => alerts[i].time <= alerts[j].time

\* C20 as stated: no alert event is sent on a tick that observes a change,
\* where time_in_state is 0; and every rule with threshold 0 whose trigger
\* state the door is still in sends its event on the next tick (the
\* transition being one that a tick after the start observed, and the list
\* being in the order of its thresholds).
C20AsStated ==
    /\ (Passed /\ out.changed)
       => out.time_in_state = 0 /\ AlertsSent(out.events) = {}
    /\ (/\ NextTick
        /\ time_of_last_state_change[out.door] > 0
        /\ Ordered(OutAlerts))
       => \A i \in 1..Len(OutAlerts) :
             (OutAlerts[i].time = 0 /\ OutAlerts[i].state = OutState)
             => SentFor(i) = 1

\* C20 amended: no alert event is sent on a tick that observes a change,
\* where time_in_state is 0; and when the first rule of the door's list has
\* threshold 0 and the door is still in its trigger state on the next tick,
\* that tick finds the cursor at 0 and sends the rule's event.
C20Amended ==
    /\ (Passed /\ out.changed)
       => out.time_in_state = 0 /\ AlertsSent(out.events) = {}
    /\ (/\ NextTick
        /\ Len(OutAlerts) > 0
        /\ OutAlerts[1].time = 0
        /\ OutAlerts[1].state = OutState)
       => out.cursor = 0 /\ SentFor(1) = 1

\* A door changed some time after the start into the trigger state of its
\* first rule, whose threshold is 0, and the tick after sent the rule's event.
C20Witness ==
    /\ NextTick
    /\ time_of_last_state_change[out.door] > 0
    /\ Len(OutAlerts) > 0
    /\ OutAlerts[1].time = 0
    /\ OutAlerts[1].state = OutState
    /\ SentFor(1) = 1

\* C21: the alerts of a door are consumed in the order of the list: an
\* alert event of a pass is for the alert right after the cursor, and within
\* one state period an alert has sent its event only when the alert before
\* it in the list has sent its own, whatever the thresholds are.
C21ListOrder ==
    /\ Passed
       => \A k \in AlertsSent(out.events) :
             out.events[k].rule = TestedCursor + 1
    /\ \A n \in DOMAIN fired :
          \A i \in 2..Len(AlertsOf(n)) :
             fired[n][i] > 0 => fired[n][i - 1] > 0

\* In a list whose second threshold is lower than its first, the second
\* alert has sent its event after the first had sent its own.
C21Witness ==
    /\ Passed
    /\ OutAlerts = AlertsDescending
    /\ SentFor(2) = 1
    /\ fired[out.door][1] = 1
    /\ fired[out.door][2] = 1

\* C22: only the alert at the cursor is examined: on every tick that finds
\* the door still in a state that is not the state of the alert at the
\* cursor, no event is sent for the door and the cursor stays where it is,
\* however long the door has been in that state and whatever the alerts
\* further down the list are.
C22OnlyCursorRule ==
    (/\ Passed
     /\ ~out.changed
     /\ out.cursor < Len(OutAlerts)
     /\ OutAlerts[out.cursor + 1].state # OutState)
    => /\ out.events = << >>
       /\ alert_states[out.door] = out.cursor

\* A door has been open for some time, its cursor is at an alert for
\* `closed`, the alert after it is for `open` with a threshold that is
\* exceeded, and the pass sent nothing.
C22Witness ==
    /\ Passed
    /\ ~out.changed
    /\ out.cursor = 0
    /\ OutAlerts = AlertsMixed
    /\ OutState = "open"
    /\ out.time_in_state > OutAlerts[2].time * Res
    /\ out.events = << >>
    /\ alert_states[out.door] = 0

\* C23: a pass that observes a change with the cursor at 0 sends nothing;
\* and when a pass sends a closing event, an alert event was sent for the
\* door in the state period that the pass closes.
C23NoClosingAtZero ==
    [][out' # out
       => /\ (out'.changed /\ out'.cursor = 0) => out'.events = << >>
          /\ (\E k \in 1..Len(out'.events) : out'.events[k].kind = "closing")
             => \E i \in DOMAIN fired[out'.door] :
                   fired[out'.door][i] > 0
      ]_vars

\* A door with alerts changed its state after some time in a state in which
\* none of them had fired, and the pass that observed it sent nothing.
C23Witness ==
    /\ Passed
    /\ out.changed
    /\ out.cursor = 0
    /\ out.exited > 0
    /\ Len(OutAlerts) > 0
    /\ out.events = << >>

\* C24: truncate returns a message of at most 140 characters unchanged, and
\* such a message is handed to the SMS service as it is.
C24FittingUnchanged ==
    Len(text.msg) <= TextLimit
    => /\ truncate(text.msg, TextLimit) = text.msg
       /\ (text.handed /\ text.channel = "sms") => text.api = text.msg

====
